---------------------------- MODULE Spec2Model ----------------------------
(***************************************************************************)
(* Model of the timelapse creator (src/main.py): the window calculator     *)
(* (get_hourly_video_info, get_daily_video_info, get_weekly_video_info),   *)
(* the retention policy (process_video_type) and the batch orchestrator    *)
(* (main), run against a Drive store of source images and artifacts.       *)
(*                                                                         *)
(* A datetime is a record of its wall-clock fields in Asia/Hong_Kong, a    *)
(* zone with a fixed +08:00 offset, so that replace() and timedelta        *)
(* arithmetic are the plain calendar computations of Python's datetime.    *)
(* Microseconds are left out: the code only ever zeroes them.              *)
(***************************************************************************)
EXTENDS Integers, Sequences, FiniteSets, Bags, TLC

VARIABLES clock, images, folders, pc, video_type, info, runs, nfaults

vars == <<clock, images, folders, pc, video_type, info, runs, nfaults>>

(***************************************************************************)
(* Python's datetime calendar: proleptic Gregorian ordinals.               *)
(***************************************************************************)
Years == 2019..2027

IsLeap(y) == y % 4 = 0 /\ (y % 100 # 0 \/ y % 400 = 0)

DaysInMonth(y, m) ==
    IF m = 2 THEN (IF IsLeap(y) THEN 29 ELSE 28)
    ELSE IF m \in {4, 6, 9, 11} THEN 30 ELSE 31

DaysBeforeYear(y) ==
    LET p == y - 1 IN p * 365 + (p \div 4) - (p \div 100) + (p \div 400)

RECURSIVE DaysBeforeMonth(_, _)
DaysBeforeMonth(y, m) ==
    IF m = 1 THEN 0 ELSE DaysBeforeMonth(y, m - 1) + DaysInMonth(y, m - 1)

Ymd2Ord(y, m, d) == DaysBeforeYear(y) + DaysBeforeMonth(y, m) + d

ToOrdinal(dt) == Ymd2Ord(dt.year, dt.month, dt.day)

Ord2Ymd(n) ==
    LET y == CHOOSE yy \in Years :
                 DaysBeforeYear(yy) < n /\ n <= DaysBeforeYear(yy + 1)
        r == n - DaysBeforeYear(y)
        m == CHOOSE mm \in 1..12 :
                 DaysBeforeMonth(y, mm) < r
                 /\ r <= DaysBeforeMonth(y, mm) + DaysInMonth(y, mm)
    IN  [year |-> y, month |-> m, day |-> r - DaysBeforeMonth(y, m)]

DateTime(y, m, d, hh, mm, ss) ==
    [year |-> y, month |-> m, day |-> d, hour |-> hh, minute |-> mm, second |-> ss]

\* datetime.weekday(): 0 = Monday ... 6 = Sunday
Weekday(dt) == (ToOrdinal(dt) + 6) % 7

SecondsOfDay(dt) == dt.hour * 3600 + dt.minute * 60 + dt.second

\* datetime - timedelta(days, hours): ordinal and seconds, then normalised
MinusTimedelta(dt, days, hours) ==
    LET s   == SecondsOfDay(dt) - hours * 3600
        o   == ToOrdinal(dt) - days + (s \div 86400)
        r   == s % 86400
        ymd == Ord2Ymd(o)
    IN  DateTime(ymd.year, ymd.month, ymd.day,
                 r \div 3600, (r % 3600) \div 60, r % 60)

\* An instant on the UTC time line, in seconds since 1970-01-01T00:00:00Z
\* (astimezone(pytz.utc) of a +08:00 wall clock); the createdTime comparisons
\* of the Drive queries use it.
UtcSeconds(dt) ==
    (ToOrdinal(dt) - Ymd2Ord(1970, 1, 1)) * 86400 + SecondsOfDay(dt) - 8 * 3600

\* date.isocalendar(): (ISO year, ISO week)
IsoWeek1Monday(y) ==
    LET firstday     == Ymd2Ord(y, 1, 1)
        firstweekday == (firstday + 6) % 7
        week1monday  == firstday - firstweekday
    IN  IF firstweekday > 3 THEN week1monday + 7 ELSE week1monday

IsoCalendar(dt) ==
    LET today == ToOrdinal(dt)
        y     == dt.year
        week  == (today - IsoWeek1Monday(y)) \div 7
    IN  IF week < 0
        THEN [year |-> y - 1,
              week |-> ((today - IsoWeek1Monday(y - 1)) \div 7) + 1]
        ELSE IF week >= 52 /\ today >= IsoWeek1Monday(y + 1)
        THEN [year |-> y + 1, week |-> 1]
        ELSE [year |-> y, week |-> week + 1]

(***************************************************************************)
(* Formatting: a name is the sequence of its pieces, digits one by one.    *)
(***************************************************************************)
Digit(n) ==
    CASE n = 0 -> "0" [] n = 1 -> "1" [] n = 2 -> "2" [] n = 3 -> "3"
      [] n = 4 -> "4" [] n = 5 -> "5" [] n = 6 -> "6" [] n = 7 -> "7"
      [] n = 8 -> "8" [] n = 9 -> "9"

RECURSIVE Decimal(_)
Decimal(n) == IF n < 10 THEN <<Digit(n)>> ELSE Decimal(n \div 10) \o <<Digit(n % 10)>>

RECURSIVE ZeroPad(_, _)
ZeroPad(s, w) == IF Len(s) >= w THEN s ELSE ZeroPad(<<"0">> \o s, w)

\* strftime('%Y%m%d')
StrfDate(dt) ==
    ZeroPad(Decimal(dt.year), 4) \o ZeroPad(Decimal(dt.month), 2)
        \o ZeroPad(Decimal(dt.day), 2)

(***************************************************************************)
(* Window calculator.                                                      *)
(***************************************************************************)
\* Mutant: the hourly name is taken from now, minutes included
get_hourly_video_info_of_now(now) ==
    LET end_time   == [now EXCEPT !.minute = 0, !.second = 0]
        start_time == MinusTimedelta(end_time, 0, 1)
    IN  [start_time |-> start_time, end_time |-> end_time,
         video_name |-> <<"timelapse_hour_">> \o StrfDate(now) \o <<"_">>
                            \o ZeroPad(Decimal(now.hour), 2)
                            \o ZeroPad(Decimal(now.minute), 2) \o <<".mp4">>,
         frame_duration |-> 250]

get_hourly_video_info(now) ==
    LET end_time   == [now EXCEPT !.minute = 0, !.second = 0]
        start_time == MinusTimedelta(end_time, 0, 1)
    IN  [start_time |-> start_time, end_time |-> end_time,
         video_name |-> <<"timelapse_hour_">> \o StrfDate(end_time) \o <<"_">>
                            \o ZeroPad(Decimal(end_time.hour), 2) \o <<".mp4">>,
         frame_duration |-> 250]

get_daily_video_info(now) ==
    LET end_time   == [now EXCEPT !.hour = 0, !.minute = 0, !.second = 0]
        start_time == MinusTimedelta(end_time, 1, 0)
    IN  [start_time |-> start_time, end_time |-> end_time,
         video_name |-> <<"timelapse_day_">> \o StrfDate(end_time) \o <<".mp4">>,
         frame_duration |-> 100]

\* Mutant: Monday counted from Sunday
WeeklyDaysToSunday(now) == Weekday(now) + 1

\* line 117: days_to_monday
WeeklyDaysToMonday(now) == Weekday(now)

\* Mutant: the week number taken from the start of the window
WeeklyNameFromStart(start_time, end_time) == start_time

\* line 120: the date whose ISO year and week name the artifact
WeeklyNameDate(start_time, end_time) == end_time

get_weekly_video_info(now) ==
    LET days_to_monday == WeeklyDaysToMonday(now)
        end_time   == [MinusTimedelta(now, days_to_monday, 0)
                          EXCEPT !.hour = 0, !.minute = 0, !.second = 0]
        start_time == MinusTimedelta(end_time, 7, 0)
        iso        == IsoCalendar(WeeklyNameDate(start_time, end_time))
    IN  [start_time |-> start_time, end_time |-> end_time,
         video_name |-> <<"timelapse_week_">> \o Decimal(iso.year)
                            \o ZeroPad(Decimal(iso.week), 2) \o <<".mp4">>,
         frame_duration |-> 50]

video_processors == <<"hourly", "daily", "weekly">>

Cadences == {"hourly", "daily", "weekly"}

get_info(cadence, now) ==
    CASE cadence = "hourly" -> get_hourly_video_info(now)
      [] cadence = "daily"  -> get_daily_video_info(now)
      [] cadence = "weekly" -> get_weekly_video_info(now)

NoInfo == [start_time |-> DateTime(2019, 1, 1, 0, 0, 0),
           end_time |-> DateTime(2019, 1, 1, 0, 0, 0),
           video_name |-> <<>>, frame_duration |-> 0]


(***************************************************************************)
(* The Drive store.  The source images come in batches, one per           *)
(* createdTime (every query of the program selects by createdTime only):  *)
(* images maps a batch to the number of its images still in the image     *)
(* folder.  folders maps an output folder to the bag of artifact names in  *)
(* it (Drive allows several files of one name).  Every files().list is     *)
(* taken to return all matches.                                            *)
(***************************************************************************)
\* createdTime of the batches of source images
createdTime ==
    [BeforeWeek |-> DateTime(2024, 3, 3, 23, 59, 59),
     WeekStart  |-> DateTime(2024, 3, 4, 0, 0, 0),
     Sunday     |-> DateTime(2024, 3, 10, 10, 0, 0),
     LastHour   |-> DateTime(2024, 3, 10, 23, 30, 0),
     WeekEnd    |-> DateTime(2024, 3, 11, 0, 0, 0)]

Slots == DOMAIN createdTime

IMAGE_THRESHOLDS == [hourly |-> 60, daily |-> 720, weekly |-> 1440]

\* createdTime >= start_utc and createdTime < end_utc
InWindow(created, start_time, end_time) ==
    /\ UtcSeconds(created) >= UtcSeconds(start_time)
    /\ UtcSeconds(created) < UtcSeconds(end_time)

\* Mutant: the image created at end_time counts as old
OldImageInclusive(created, end_time) == UtcSeconds(created) <= UtcSeconds(end_time)

\* createdTime < end_utc
OldImage(created, end_time) == UtcSeconds(created) < UtcSeconds(end_time)

RECURSIVE SumOver(_, _)
SumOver(f, S) ==
    IF S = {} THEN 0
    ELSE LET x == CHOOSE y \in S : TRUE IN f[x] + SumOver(f, S \ {x})

MatchingImages(imgs, start_time, end_time) ==
    SumOver(imgs, {s \in DOMAIN imgs : InWindow(createdTime[s], start_time, end_time)})

(***************************************************************************)
(* Outcomes of a collaborator call: "ok", "http" (googleapiclient's        *)
(* HttpError, the only exception the helpers catch) and "other" (any other *)
(* exception, which only process_video_type's handler catches).            *)
(* download_images may also come back with no usable file ("empty") and    *)
(* create_mp4 may return False ("false") or raise ("raise").               *)
(***************************************************************************)
\* Mutant: the query asks for the name without its extension
video_exists_without_extension(folder, video_name, outcome) ==
    IF outcome = "http" THEN FALSE
    ELSE BagIn(SubSeq(video_name, 1, Len(video_name) - 1), folder)

video_exists(folder, video_name, outcome) ==
    IF outcome = "http" THEN FALSE ELSE BagIn(video_name, folder)

count_images(imgs, start_time, end_time, outcome) ==
    IF outcome = "http" THEN 0 ELSE MatchingImages(imgs, start_time, end_time)

\* len(image_paths)
download_images(imgs, start_time, end_time, outcome) ==
    IF outcome \in {"http", "empty"} THEN 0
    ELSE MatchingImages(imgs, start_time, end_time)

\* Mutant: a count equal to the threshold is insufficient
InsufficientImagesInclusive(image_count, cadence) ==
    image_count <= IMAGE_THRESHOLDS[cadence]

InsufficientImages(image_count, cadence) ==
    image_count < IMAGE_THRESHOLDS[cadence]

upload_video(flds, folder_id, video_name) ==
    [flds EXCEPT ![folder_id] = @ (+) SetToBag({video_name})]

\* What a delete loop removes: every file listed or, when a call of the loop
\* fails, the files removed before the failure (not all of them: the failing
\* call removed none).  A batch of images goes as a whole.
Removals(listed, outcome) ==
    IF outcome = "ok" THEN {listed}
    ELSE {part \in SUBSET listed : part # listed \/ listed = {}}

VideosIn(flds, folder_id) == BagToSet(flds[folder_id])

delete_videos_in_folder(flds, folder_id, gone) ==
    [flds EXCEPT ![folder_id] = [n \in (DOMAIN @) \ gone |-> @[n]]]

OldImages(imgs, end_time) ==
    {s \in DOMAIN imgs : imgs[s] > 0 /\ OldImage(createdTime[s], end_time)}

\* Mutant: the query forgets createdTime and every image goes
delete_all_images(imgs, gone) == [s \in DOMAIN imgs |-> 0]

delete_old_images(imgs, gone) ==
    [s \in DOMAIN imgs |-> IF s \in gone THEN 0 ELSE imgs[s]]

\* Cleanup of a cadence: the output folders whose videos go, and whether the
\* old source images go
CleanupVideos(cadence) ==
    CASE cadence = "daily"  -> <<"hourly">>
      [] cadence = "weekly" -> <<"daily">>
      [] OTHER -> <<>>

CleanupImages(cadence) == cadence = "weekly"

(***************************************************************************)
(* Bounds and the initial store.                                           *)
(***************************************************************************)
MaxInvocations == 2

MaxFaults == 1

\* Clock readings, in order: a Monday, twice within one hour, then the next hour
Times == <<DateTime(2024, 3, 11, 0, 30, 0), DateTime(2024, 3, 11, 0, 45, 10),
           DateTime(2024, 3, 11, 1, 10, 0)>>

\* The batches hold just enough images for every threshold of the first
\* clock reading, or the last hour of the week and the hour after it hold
\* one image less
FullBatches ==
    [BeforeWeek |-> 5, WeekStart |-> 720, Sunday |-> 660, LastHour |-> 60,
     WeekEnd |-> 61]

InitialImages ==
    {FullBatches,
     [s \in Slots |-> FullBatches[s] - (IF s \in {"LastHour", "WeekEnd"} THEN 1 ELSE 0)]}

\* Artifacts of earlier windows, and possibly those of the first clock reading
OldArtifacts ==
    [hourly |-> {<<"timelapse_hour_">> \o StrfDate(createdTime.LastHour)
                     \o <<"_", "2", "3", ".mp4">>},
     daily  |-> {<<"timelapse_day_">> \o StrfDate(createdTime.Sunday) \o <<".mp4">>},
     weekly |-> {<<"timelapse_week_", "2", "0", "2", "4", "1", "0", ".mp4">>}]

InitialFolders ==
    {[c \in Cadences |->
        SetToBag(OldArtifacts[c]
                 \cup (IF c \in present THEN {get_info(c, Times[1]).video_name} ELSE {}))] :
     present \in {{}, {"weekly"}, {"daily", "weekly"}}}

(***************************************************************************)
(* The history of the invocations of main: per invocation the store it     *)
(* started from and, per cadence, the path process_video_type took:        *)
(* outcome is the state reached (SKIPPED_exists, SKIPPED_insufficient,     *)
(* FAILED, BUILT once the upload succeeded), ret the value returned to     *)
(* main, error whether the handler of line 393 was reached, count the      *)
(* value of image_count, trace the collaborator calls in order, faults the *)
(* calls that failed.                                                      *)
(***************************************************************************)
NotCounted == 0 - 1

NotRun == [info |-> NoInfo, outcome |-> "none", returned |-> FALSE, ret |-> FALSE,
           error |-> FALSE, count |-> NotCounted, trace |-> <<>>, faults |-> {}]

NewRun(imgs, flds, fatal) ==
    [fatal |-> fatal, images |-> imgs, folders |-> flds,
     res |-> [c \in Cadences |-> NotRun]]

Call(op, target) == [op |-> op, target |-> target, videos |-> {}, slots |-> {}]

\* The result of the running process_video_type call
Cur == runs[Len(runs)].res[video_type]

Logged(r, call, outcome) ==
    [r EXCEPT !.trace = Append(@, call),
              !.faults = IF outcome = "ok" THEN @ ELSE @ \cup {<<call.op, outcome>>}]

Init ==
    /\ clock = Times[1]
    /\ images \in InitialImages
    /\ folders \in InitialFolders
    /\ pc = "idle"
    /\ video_type = "none"
    /\ info = NoInfo
    /\ runs = <<>>
    /\ nfaults = 0

(***************************************************************************)
(* main and process_video_type, one action per call.                       *)
(***************************************************************************)
\* Mutant: the loop stops at the first cadence that fails
NextCadenceUnlessFailed(cadence, ret) ==
    IF ~ret THEN "none"
    ELSE CASE cadence = video_processors[1] -> video_processors[2]
           [] cadence = video_processors[2] -> video_processors[3]
           [] OTHER -> "none"

\* The cadence main's loop turns to after cadence returned ret
NextCadence(cadence, ret) ==
    CASE cadence = video_processors[1] -> video_processors[2]
      [] cadence = video_processors[2] -> video_processors[3]
      [] OTHER -> "none"

\* A call ends with outcome: failures are bounded
Ends(outcome) ==
    /\ outcome # "ok" => nfaults < MaxFaults
    /\ nfaults' = IF outcome = "ok" THEN nfaults ELSE nfaults + 1

\* process_video_type goes on to its next call
Continue(r, next) ==
    /\ runs' = [runs EXCEPT ![Len(runs)].res[video_type] = r]
    /\ pc' = next
    /\ UNCHANGED video_type

\* process_video_type returns ret to main, whose loop goes on
Return(r, outcome, ret, error) ==
    /\ runs' = [runs EXCEPT ![Len(runs)].res[video_type] =
                   [r EXCEPT !.outcome = outcome, !.returned = TRUE,
                             !.ret = ret, !.error = error]]
    /\ video_type' = NextCadence(video_type, ret)
    /\ pc' = IF video_type' = "none" THEN "idle" ELSE "process"

\* authenticate() and get_folder_ids() succeed: the loop starts
MainStart ==
    /\ pc = "idle"
    /\ Len(runs) < MaxInvocations
    /\ runs' = Append(runs, NewRun(images, folders, FALSE))
    /\ video_type' = video_processors[1]
    /\ pc' = "process"
    /\ UNCHANGED <<clock, images, folders, info, nfaults>>

\* authenticate() or get_folder_ids() raises: "Critical error", no cadence runs
MainFatal ==
    /\ pc = "idle"
    /\ Len(runs) < MaxInvocations
    /\ Ends("other")
    /\ runs' = Append(runs, NewRun(images, folders, TRUE))
    /\ UNCHANGED <<clock, images, folders, pc, video_type, info>>

\* lines 348-354: the clock is read and the window computed
GetInfo ==
    /\ pc = "process"
    /\ info' = get_info(video_type, clock)
    /\ Continue([NotRun EXCEPT !.info = info', !.outcome = "running"], "video_exists")
    /\ UNCHANGED <<clock, images, folders, nfaults>>

\* lines 356-359
VideoExists ==
    /\ pc = "video_exists"
    /\ \E outcome \in {"ok", "http", "other"} :
         LET r == Logged(Cur, Call("video_exists", video_type), outcome)
         IN  /\ Ends(outcome)
             /\ IF outcome = "other"
                THEN Return(r, "FAILED", FALSE, TRUE)
                ELSE IF video_exists(folders[video_type], info.video_name, outcome)
                THEN Return(r, "SKIPPED_exists", TRUE, FALSE)
                ELSE Continue(r, "count_images")
    /\ UNCHANGED <<clock, images, folders, info>>

\* lines 361-365
CountImages ==
    /\ pc = "count_images"
    /\ \E outcome \in {"ok", "http", "other"} :
         LET image_count == count_images(images, info.start_time, info.end_time,
                                         outcome)
             r == Logged(Cur, Call("count_images", "image"), outcome)
         IN  /\ Ends(outcome)
             /\ IF outcome = "other"
                THEN Return(r, "FAILED", FALSE, TRUE)
                ELSE IF InsufficientImages(image_count, video_type)
                THEN Return([r EXCEPT !.count = image_count],
                            "SKIPPED_insufficient", FALSE, FALSE)
                ELSE Continue([r EXCEPT !.count = image_count], "download_images")
    /\ UNCHANGED <<clock, images, folders, info>>

\* lines 369-373
DownloadImages ==
    /\ pc = "download_images"
    /\ \E outcome \in {"ok", "http", "other", "empty"} :
         LET image_paths == download_images(images, info.start_time, info.end_time,
                                            outcome)
             r == Logged(Cur, Call("download_images", "image"), outcome)
         IN  /\ Ends(outcome)
             /\ IF outcome = "other"
                THEN Return(r, "FAILED", FALSE, TRUE)
                ELSE IF image_paths = 0
                THEN Return(r, "FAILED", FALSE, FALSE)
                ELSE Continue(r, "create_mp4")
    /\ UNCHANGED <<clock, images, folders, info>>

\* lines 375-379; create_mp4 raises when its finally block meets the unbound
\* name files
CreateMp4 ==
    /\ pc = "create_mp4"
    /\ \E outcome \in {"ok", "false", "raise"} :
         LET r == Logged(Cur, Call("create_mp4", "encoder"), outcome)
         IN  /\ Ends(outcome)
             /\ IF outcome = "ok"
                THEN Continue(r, "upload_video")
                ELSE Return(r, "FAILED", FALSE, outcome = "raise")
    /\ UNCHANGED <<clock, images, folders, info>>

\* lines 381-382, and the choice of the cleanup of lines 384-389
UploadVideo ==
    /\ pc = "upload_video"
    /\ \E outcome \in {"ok", "http", "other"} :
         LET r == Logged(Cur, Call("upload_video", video_type), outcome)
         IN  /\ Ends(outcome)
             /\ IF outcome # "ok"
                THEN /\ Return(r, "FAILED", FALSE, TRUE)
                     /\ UNCHANGED folders
                ELSE /\ folders' = upload_video(folders, video_type, info.video_name)
                     /\ IF CleanupVideos(video_type) # <<>>
                        THEN Continue([r EXCEPT !.outcome = "BUILT"],
                                      "delete_videos_in_folder")
                        ELSE Return(r, "BUILT", TRUE, FALSE)
    /\ UNCHANGED <<clock, images, info>>

\* lines 386 and 388
DeleteVideosInFolder ==
    /\ pc = "delete_videos_in_folder"
    /\ \E outcome \in {"ok", "http", "other"} :
       \E gone \in Removals(VideosIn(folders, CleanupVideos(video_type)[1]), outcome) :
         LET target == CleanupVideos(video_type)[1]
             r == Logged(Cur, [Call("delete_videos_in_folder", target)
                                  EXCEPT !.videos = gone], outcome)
         IN  /\ Ends(outcome)
             /\ folders' = delete_videos_in_folder(folders, target, gone)
             /\ IF outcome = "other"
                THEN Return(r, "BUILT", FALSE, TRUE)
                ELSE IF CleanupImages(video_type)
                THEN Continue(r, "delete_old_images")
                ELSE Return(r, "BUILT", TRUE, FALSE)
    /\ UNCHANGED <<clock, images, info>>

\* lines 389-391
DeleteOldImages ==
    /\ pc = "delete_old_images"
    /\ \E outcome \in {"ok", "http", "other"} :
       \E gone \in Removals(OldImages(images, info.end_time), outcome) :
         LET r == Logged(Cur, [Call("delete_old_images", "image")
                                  EXCEPT !.slots = gone], outcome)
         IN  /\ Ends(outcome)
             /\ images' = delete_old_images(images, gone)
             /\ Return(r, "BUILT", outcome # "other", outcome = "other")
    /\ UNCHANGED <<clock, folders, info>>

\* Time passes; the program reads the clock only at the start of a cadence
Tick ==
    /\ pc \in {"idle", "process"}
    /\ \E i \in 1..(Len(Times) - 1) : clock = Times[i] /\ clock' = Times[i + 1]
    /\ UNCHANGED <<images, folders, pc, video_type, info, runs, nfaults>>

Next ==
    \/ MainStart \/ MainFatal \/ GetInfo \/ VideoExists \/ CountImages
    \/ DownloadImages \/ CreateMp4 \/ UploadVideo \/ DeleteVideosInFolder
    \/ DeleteOldImages \/ Tick

Spec == Init /\ [][Next]_vars

(***************************************************************************)
(* The window calculator alone: the clock reads any of a range of times    *)
(* (month ends, a leap day, year ends with and without an ISO week 53) and *)
(* a cadence computes its window.                                          *)
(***************************************************************************)
WindowDays ==
    {Ord2Ymd(Ymd2Ord(2024, 2, 26) + k) : k \in 0..20}
    \cup {Ord2Ymd(Ymd2Ord(2024, 12, 26) + k) : k \in 0..12}
    \cup {Ord2Ymd(Ymd2Ord(2020, 12, 27) + k) : k \in 0..9}

WindowNows ==
    {DateTime(d.year, d.month, d.day, hh, mm, ss) :
     d \in WindowDays, hh \in {0, 15, 23}, mm \in {0, 47, 59}, ss \in {0, 59}}

InitWindow ==
    /\ clock \in WindowNows
    /\ images = FullBatches
    /\ folders = [c \in Cadences |-> SetToBag(OldArtifacts[c])]
    /\ pc = "process"
    /\ video_type \in Cadences
    /\ info = NoInfo
    /\ runs = <<NewRun(images, folders, FALSE)>>
    /\ nfaults = 0

SpecWindow == InitWindow /\ [][GetInfo]_vars

(***************************************************************************)
(* Properties.                                                             *)
(***************************************************************************)
Span(cadence) ==
    CASE cadence = "hourly" -> 3600
      [] cadence = "daily"  -> 86400
      [] cadence = "weekly" -> 7 * 86400

\* C6: for every clock reading and cadence, the window just computed ends on
\* the cadence's boundary (top of the hour, midnight, Monday midnight), spans
\* exactly 1h, 24h or 7d, and is the last completed one: end <= now < end + span.
C6_WindowIsLastCompleted ==
    pc = "video_exists" =>
        /\ info.end_time.minute = 0 /\ info.end_time.second = 0
        /\ video_type \in {"daily", "weekly"} => info.end_time.hour = 0
        /\ video_type = "weekly" =>
               (ToOrdinal(info.end_time) - Ymd2Ord(2024, 3, 11)) % 7 = 0
        /\ UtcSeconds(info.end_time) - UtcSeconds(info.start_time) = Span(video_type)
        /\ UtcSeconds(info.end_time) <= UtcSeconds(clock)
        /\ UtcSeconds(clock) < UtcSeconds(info.end_time) + Span(video_type)

\* A weekly window computed on a Wednesday, reaching back over the year's end
C6_Witness ==
    /\ pc = "video_exists" /\ video_type = "weekly"
    /\ clock = DateTime(2025, 1, 1, 15, 47, 59)
    /\ info.end_time = DateTime(2024, 12, 30, 0, 0, 0)
    /\ info.start_time = DateTime(2024, 12, 23, 0, 0, 0)

EndToEndNow == DateTime(2024, 3, 14, 15, 47, 0)

EndToEndWeekly ==
    /\ (ToOrdinal(clock) - Ymd2Ord(2024, 3, 11)) % 7 = 3
    /\ info.start_time = DateTime(2024, 3, 4, 0, 0, 0)
    /\ info.end_time = DateTime(2024, 3, 11, 0, 0, 0)

\* C7 as stated: at 2024-03-14T15:47 (a Thursday) the weekly window is
\* [2024-03-04T00:00, 2024-03-11T00:00) and the artifact is timelapse_week_202410.
C7_Original ==
    (pc = "video_exists" /\ video_type = "weekly" /\ clock = EndToEndNow) =>
        /\ EndToEndWeekly
        /\ info.video_name =
               <<"timelapse_week_", "2", "0", "2", "4", "1", "0", ".mp4">>

\* C7 as amended: at 2024-03-14T15:47 (a Thursday) the weekly window is
\* [2024-03-04T00:00, 2024-03-11T00:00) and the artifact is timelapse_week_202411:
\* 2024-03-11, the window's end, lies in ISO week 11 of 2024.
C7_Amended ==
    (pc = "video_exists" /\ video_type = "weekly" /\ clock = EndToEndNow) =>
        /\ EndToEndWeekly
        /\ info.video_name =
               <<"timelapse_week_", "2", "0", "2", "4", "1", "1", ".mp4">>

C7_Witness ==
    /\ pc = "video_exists" /\ video_type = "weekly" /\ clock = EndToEndNow
    /\ Len(info.video_name) = 8

Ops(r) == {r.trace[k].op : k \in DOMAIN r.trace}

Deletes(r) ==
    {k \in DOMAIN r.trace :
        r.trace[k].op \in {"delete_videos_in_folder", "delete_old_images"}}

BuildCalls ==
    {"download_images", "create_mp4", "upload_video", "delete_videos_in_folder",
     "delete_old_images"}

Threshold(cadence) ==
    CASE cadence = "hourly" -> 60
      [] cadence = "daily"  -> 720
      [] cadence = "weekly" -> 1440

\* Invocation i is over
Finished(i) == i < Len(runs) \/ pc = "idle"

\* The store invocation i left (nothing but the program changes the store)
ImagesAfter(i) == IF i < Len(runs) THEN runs[i + 1].images ELSE images

FoldersAfter(i) == IF i < Len(runs) THEN runs[i + 1].folders ELSE folders

SameWindow(a, b, c) ==
    /\ a.res[c].info.start_time = b.res[c].info.start_time
    /\ a.res[c].info.end_time = b.res[c].info.end_time

\* C1: when the artifact is in the cadence's folder and the existence check
\* answers, the cadence ends SKIPPED(exists) and returns True after that one
\* call, with no fetch, encode, upload or delete, and the store is unchanged;
\* so is it when the artifact was uploaded by an earlier run of the cadence.
C1_ExistingArtifactSkips ==
    [][(/\ pc = "video_exists"
        /\ BagIn(info.video_name, folders[video_type])
        /\ pc' # "video_exists"
        /\ nfaults' = nfaults)
       => LET r == runs'[Len(runs)].res[video_type]
          IN  /\ r.outcome = "SKIPPED_exists" /\ r.returned /\ r.ret
              /\ r.trace = <<Call("video_exists", video_type)>>
              /\ images' = images /\ folders' = folders]_vars

\* A cadence built and uploaded in one invocation, skipped in the next
C1_Witness ==
    \E i \in DOMAIN runs, c \in Cadences :
        /\ i > 1
        /\ runs[i - 1].res[c].outcome = "BUILT"
        /\ runs[i].res[c].outcome = "SKIPPED_exists"
        /\ runs[i].res[c].info.video_name = runs[i - 1].res[c].info.video_name

\* C2: an hourly cadence deletes nothing, a daily one only videos of the
\* hourly folder, a weekly one only videos of the daily folder and images
\* created before its window's end; no image created at or after the end of
\* a weekly window that ran is ever gone, nor any artifact of the weekly folder.
C2_CleanupScoped ==
    /\ \A i \in DOMAIN runs, c \in Cadences :
         LET r == runs[i].res[c] IN
         \A k \in DOMAIN r.trace :
            LET e == r.trace[k] IN
            /\ e.op = "delete_videos_in_folder" =>
                   \/ c = "daily" /\ e.target = "hourly"
                   \/ c = "weekly" /\ e.target = "daily"
            /\ e.op = "delete_old_images" =>
                   /\ c = "weekly"
                   /\ \A s \in e.slots :
                         UtcSeconds(createdTime[s]) < UtcSeconds(r.info.end_time)
    /\ runs # <<>> =>
         /\ \A s \in Slots :
               images[s] # runs[1].images[s] =>
                   \E i \in DOMAIN runs :
                      /\ runs[i].res.weekly.outcome = "BUILT"
                      /\ UtcSeconds(createdTime[s])
                             < UtcSeconds(runs[i].res.weekly.info.end_time)
         /\ \A n \in DOMAIN runs[1].folders.weekly :
               /\ BagIn(n, folders.weekly)
               /\ CopiesIn(n, folders.weekly) >= CopiesIn(n, runs[1].folders.weekly)

\* All three cadences built: the daily one emptied the hourly folder, the
\* weekly one the daily folder and the images before its end, not those at it
C2_Witness ==
    /\ pc = "idle" /\ runs # <<>>
    /\ \A c \in Cadences : runs[Len(runs)].res[c].outcome = "BUILT"
    /\ \E k \in DOMAIN runs[Len(runs)].res.daily.trace :
          /\ runs[Len(runs)].res.daily.trace[k].op = "delete_videos_in_folder"
          /\ Cardinality(runs[Len(runs)].res.daily.trace[k].videos) = 2
    /\ \E k \in DOMAIN runs[Len(runs)].res.weekly.trace :
          /\ runs[Len(runs)].res.weekly.trace[k].op = "delete_old_images"
          /\ runs[Len(runs)].res.weekly.trace[k].slots = Slots \ {"WeekEnd"}
    /\ images.WeekEnd > 0 /\ images.LastHour = 0
    /\ folders.hourly = EmptyBag /\ BagCardinality(folders.weekly) = 2

\* The artifact cadence c uploaded in run is still in its folder
Kept(run, c) ==
    \/ BagIn(run.res[c].info.video_name, folders[c])
    \/ \E c2 \in Cadences : \E k \in DOMAIN run.res[c2].trace :
          /\ run.res[c2].trace[k].op = "delete_videos_in_folder"
          /\ run.res[c2].trace[k].target = c
          /\ run.res[c].info.video_name \in run.res[c2].trace[k].videos

\* C3: an invocation that got past authentication and folder resolution
\* runs hourly, daily, weekly in that order, each one returned before the
\* next starts, and all three whatever the earlier ones returned; a cadence
\* that ends FAILED has made no delete call; what the cadences of the running
\* invocation uploaded and deleted stays uploaded and deleted.
C3_PartialFailureIsolation ==
    \A i \in DOMAIN runs :
       ~runs[i].fatal =>
          LET res == runs[i].res IN
          /\ res.daily.outcome # "none" => res.hourly.returned
          /\ res.weekly.outcome # "none" => res.daily.returned
          /\ Finished(i) => \A c \in Cadences : res[c].returned
          /\ \A c \in Cadences :
                res[c].outcome = "FAILED" => Deletes(res[c]) = {}
          /\ i = Len(runs) =>
                \A c \in Cadences :
                   /\ res[c].outcome = "BUILT" => Kept(runs[i], c)
                   /\ \A k \in Deletes(res[c]) :
                         /\ \A s \in res[c].trace[k].slots : images[s] = 0
                         /\ \A v \in res[c].trace[k].videos :
                               ~BagIn(v, folders[res[c].trace[k].target])

\* The hourly cadence built, the daily one failed at the encode step, and
\* the weekly one ran all the same and built
C3_Witness ==
    /\ pc = "idle" /\ runs # <<>>
    /\ LET res == runs[Len(runs)].res IN
       /\ res.hourly.outcome = "BUILT"
       /\ res.daily.outcome = "FAILED"
       /\ res.daily.faults \cap {<<"create_mp4", "false">>, <<"create_mp4", "raise">>} # {}
       /\ res.weekly.outcome = "BUILT"
       /\ BagIn(res.hourly.info.video_name, folders.hourly)

\* C4: once the images of the window are counted (the artifact was not
\* found), a count below the threshold (60, 720, 1440) ends the cadence
\* SKIPPED(insufficient) with no download, encode, upload or delete, and a
\* count of the threshold or more sends it on to the download.
C4_ThresholdBoundary ==
    \A i \in DOMAIN runs, c \in Cadences :
       LET r == runs[i].res[c] IN
       r.count # NotCounted =>
          /\ r.count < Threshold(c) =>
                /\ r.outcome = "SKIPPED_insufficient" /\ r.returned
                /\ Len(r.trace) = 2
                /\ Ops(r) \cap BuildCalls = {}
          /\ r.count >= Threshold(c) =>
                /\ r.outcome # "SKIPPED_insufficient"
                /\ \/ "download_images" \in Ops(r)
                   \/ i = Len(runs) /\ c = video_type /\ pc = "download_images"

\* In one invocation the hourly cadence went on with exactly 60 images and
\* the daily one was skipped with 719; in another the hourly one was skipped
\* with 59
C4_Witness ==
    \E i \in DOMAIN runs :
       /\ runs[i].res.hourly.count = 60
       /\ "download_images" \in Ops(runs[i].res.hourly)
       /\ runs[i].res.daily.count = 719
       /\ runs[i].res.daily.outcome = "SKIPPED_insufficient"
       /\ \E j \in DOMAIN runs :
             /\ runs[j].res.hourly.count = 59
             /\ runs[j].res.hourly.outcome = "SKIPPED_insufficient"

\* Every cadence of run a ended BUILT or SKIPPED(exists)
Settled(a) ==
    /\ ~a.fatal
    /\ \A c \in Cadences :
          a.res[c].returned /\ a.res[c].outcome \in {"BUILT", "SKIPPED_exists"}

\* Run b is over, no call of it failed, and it had the windows of run a
Repeats(a, b) ==
    /\ ~b.fatal
    /\ \A c \in Cadences :
          b.res[c].returned /\ b.res[c].faults = {} /\ SameWindow(a, b, c)

\* Run i uploaded nothing, deleted nothing and left the store as it found it
Idle(i) ==
    /\ \A c \in Cadences :
          Ops(runs[i].res[c])
              \cap {"upload_video", "delete_videos_in_folder", "delete_old_images"} = {}
    /\ ImagesAfter(i) = runs[i].images
    /\ FoldersAfter(i) = runs[i].folders

\* C5 as stated: after an invocation whose cadences all ended BUILT or
\* SKIPPED(exists), the next invocation in the same windows, with no failing
\* call, uploads nothing, deletes nothing and leaves the store unchanged.
C5_Original ==
    \A i \in DOMAIN runs :
       (i > 1 /\ Settled(runs[i - 1]) /\ Repeats(runs[i - 1], runs[i])) => Idle(i)

\* C5 amended: the same, provided the artifacts of all three cadences are
\* still in their folders when the first invocation is over (the cleanup of
\* a daily or weekly build did not delete them).
C5_Amended ==
    \A i \in DOMAIN runs :
       (/\ i > 1 /\ Settled(runs[i - 1]) /\ Repeats(runs[i - 1], runs[i])
        /\ \A c \in Cadences :
              BagIn(runs[i - 1].res[c].info.video_name, runs[i].folders[c]))
       => Idle(i)

\* An invocation built the hourly artifact, the daily and weekly ones being
\* there, and the next invocation of the same windows is over
C5_Witness ==
    \E i \in DOMAIN runs :
       /\ i > 1 /\ Settled(runs[i - 1]) /\ Repeats(runs[i - 1], runs[i])
       /\ runs[i - 1].res.hourly.outcome = "BUILT"
       /\ \A c \in Cadences :
             /\ BagIn(runs[i - 1].res[c].info.video_name, runs[i].folders[c])
             /\ runs[i].res[c].outcome = "SKIPPED_exists"

\* The build of cadence c failed at the download, the encode or the upload
FailedBuild(r) ==
    r.returned /\ r.outcome = "FAILED" /\ "download_images" \in Ops(r)

\* Cadence c of run b is over, in the window it had in run a, and no call of
\* run b has failed
Retried(a, b, c) ==
    /\ ~b.fatal
    /\ b.res[c].returned
    /\ SameWindow(a, b, c)
    /\ \A c2 \in Cadences : b.res[c2].faults = {}

\* The cadence passed both checks, built from the images of its window and
\* uploaded
Rebuilt(r, c) ==
    /\ r.outcome = "BUILT" /\ r.ret
    /\ r.count >= Threshold(c)
    /\ {"download_images", "create_mp4", "upload_video"} \subseteq Ops(r)

\* C8 as stated: a cadence whose build failed in one invocation builds and
\* uploads in the next invocation of the same window when every call
\* succeeds, whatever the other cadences did.
C8_Original ==
    \A i \in DOMAIN runs, c \in Cadences :
       (i > 1 /\ FailedBuild(runs[i - 1].res[c]) /\ Retried(runs[i - 1], runs[i], c))
       => Rebuilt(runs[i].res[c], c)

\* The weekly cleanup of run a deleted images of the window of cadence c
WindowImagesDeleted(a, c) ==
    \E k \in DOMAIN a.res.weekly.trace :
       /\ a.res.weekly.trace[k].op = "delete_old_images"
       /\ \E s \in a.res.weekly.trace[k].slots :
             /\ UtcSeconds(a.res[c].info.start_time) <= UtcSeconds(createdTime[s])
             /\ UtcSeconds(createdTime[s]) < UtcSeconds(a.res[c].info.end_time)

\* C8 amended: the same, provided the existence check of the failed attempt
\* answered (so the artifact was not there) and the weekly cleanup of that
\* invocation deleted no image of the cadence's window.
C8_Amended ==
    \A i \in DOMAIN runs, c \in Cadences :
       (/\ i > 1 /\ FailedBuild(runs[i - 1].res[c])
        /\ Retried(runs[i - 1], runs[i], c)
        /\ <<"video_exists", "http">> \notin runs[i - 1].res[c].faults
        /\ ~WindowImagesDeleted(runs[i - 1], c))
       => Rebuilt(runs[i].res[c], c)

\* The hourly build failed while the weekly one of the same invocation
\* deleted the images before its end; the next invocation built the hourly
\* artifact
C8_Witness ==
    \E i \in DOMAIN runs :
       /\ i > 1
       /\ FailedBuild(runs[i - 1].res.hourly)
       /\ \E k \in DOMAIN runs[i - 1].res.weekly.trace :
             /\ runs[i - 1].res.weekly.trace[k].op = "delete_old_images"
             /\ runs[i - 1].res.weekly.trace[k].slots # {}
       /\ Retried(runs[i - 1], runs[i], "hourly")
       /\ Rebuilt(runs[i].res.hourly, "hourly")

\* C9: once the artifact is uploaded, a failing cleanup delete is only
\* logged: the cadence returns True without reaching the error handler, and
\* the weekly cadence calls delete_old_images even when deleting the daily
\* artifacts failed.
C9_CleanupBestEffort ==
    \A i \in DOMAIN runs, c \in Cadences :
       LET r == runs[i].res[c] IN
       (r.returned /\ r.outcome = "BUILT") =>
          /\ r.ret /\ ~r.error
          /\ c = "weekly" => "delete_old_images" \in Ops(r)

\* C10: a failing existence check counts as "not there": the images are
\* counted and, when they suffice and nothing else fails, the artifact is
\* built and uploaded; a failing count counts as zero: the cadence ends
\* SKIPPED(insufficient) with no further call; neither reaches the error
\* handler nor stops the cadences after it.
C10_DegradedDefaults ==
    \A i \in DOMAIN runs, c \in Cadences :
       LET r == runs[i].res[c]
           exists_failed == \E o \in {"http", "other"} : <<"video_exists", o>> \in r.faults
           count_failed  == \E o \in {"http", "other"} : <<"count_images", o>> \in r.faults
       IN  /\ exists_failed =>
                /\ "count_images" \in Ops(r) \/ (~r.returned /\ pc = "count_images")
                /\ (r.returned /\ Cardinality(r.faults) = 1 /\ r.count >= Threshold(c))
                      => Rebuilt(r, c)
           /\ count_failed =>
                /\ r.returned /\ r.outcome = "SKIPPED_insufficient" /\ r.count = 0
                /\ Ops(r) \cap BuildCalls = {}
           /\ (exists_failed \/ count_failed) =>
                /\ ~r.error
                /\ Finished(i) => \A c2 \in Cadences : runs[i].res[c2].returned

=============================================================================
